---- MODULE Spec2Model ----
(***************************************************************************)
(* State-change detection and reporting pipeline of the activity tracker.  *)
(*                                                                         *)
(* The repository holds two builds of the extension:                       *)
(*   src/unnamed/part_000  pollState with the repository resolver          *)
(*                         (findGitHubURL, getGitRemotes, getGitRemoteURL) *)
(*   src/extension.js      pollState without the resolver                  *)
(* The variable `build` selects the one that is running.                   *)
(*                                                                         *)
(* Execution model: the JavaScript event loop.  A macrotask (a timer tick, *)
(* the exit of a child process, the settling of a fetch) runs only when    *)
(* the microtask queue `mq` is empty; the continuation of an `await` is a  *)
(* microtask, run in FIFO order.  AbortController.abort() rejects          *)
(* synchronously every pending call that was given its signal, with an     *)
(* AbortError whose code is "ABORT_ERR".  The editor is read only in the   *)
(* synchronous part of a tick, so what the user did since the last tick    *)
(* is the input `e` of that tick.                                          *)
(***************************************************************************)
EXTENDS Integers, Sequences, FiniteSets, TLC

\* ---------------------------------------------------------------- bounds
MaxTicks == 3
MaxLines == 13

Ticks == 1..MaxTicks

\* ------------------------------------------------- the editor (external)
Workspaces == {"proj", "other"}
Files == {"a.js", "b.log"}
Rows == {0, 1}
Builds == {"part", "ext"}

\* "b.log" is a one-line file of workspace "proj"; "a.js" is open in both
\* workspaces, and the cursor moves in it in "proj"
Contexts ==
    {c \in [workspace : Workspaces, fileName : Files, row : Rows] :
        /\ c.fileName = "b.log" => c.workspace = "proj"
        /\ c.row # 0 => (c.fileName = "a.js" /\ c.workspace = "proj")}

\* no editor is active (vscode.window.activeTextEditor is undefined)
NoContext == [workspace |-> "", fileName |-> "", row |-> 0]

\* what a tick can find when it reads the editor
EditorInputs == Contexts \cup {NoContext}

languageId(f) == IF f = "a.js" THEN "javascript" ELSE "log"
lineCount(f) == IF f = "a.js" THEN Cardinality(Rows) ELSE Cardinality(Rows) - 1

Undefined == <<"undefined">>

\* the id of the timer that activate starts with setInterval
TimerId == 1

\* ------------------------------------------------------- pure functions
Max(a, b) == IF a >= b THEN a ELSE b
Abs(a) == IF a < 0 THEN -a ELSE a

range == 5
totalRange == range * 2 + 1

\* variant: the window is not shifted back at the end of the document
getViewRange_noShift(line, count) ==
    IF count < totalRange
    THEN [start |-> 0, end |-> count]
    ELSE [start |-> Max(0, line - range), end |-> Max(0, line - range) + totalRange - 1]

\* variant: a short document is returned up to its last line, not to count
getViewRange_lastLine(line, count) ==
    IF count < totalRange
    THEN [start |-> 0, end |-> Max(0, count - 1)]
    ELSE LET shifted == Max(0, line - range) - Abs(count - Max(0, line - range) - totalRange)
         IN IF count - Max(0, line - range) >= totalRange
            THEN [start |-> Max(0, line - range), end |-> Max(0, line - range) + totalRange - 1]
            ELSE [start |-> shifted, end |-> shifted + totalRange - 1]

getViewRange(line, count) ==
    IF count < totalRange
    THEN [start |-> 0, end |-> count]
    ELSE LET startLine == Max(0, line - range)
         IN IF count - startLine >= totalRange
            THEN [start |-> startLine, end |-> startLine + totalRange - 1]
            ELSE LET shifted == startLine - Abs(count - startLine - totalRange)
                 IN [start |-> shifted, end |-> shifted + totalRange - 1]

\* doc.getText(range): the text between the two positions, the range being
\* clamped to the document; the text is identified by the lines it covers.
getText(r, count) ==
    LET last == IF r.end > count - 1 THEN count - 1 ELSE r.end
    IN IF count = 0 THEN <<0, 0>> ELSE <<r.start, last>>

\* variant: the key counts are not compared
shallowEqual_noLength(objA, objB) ==
    \A key \in DOMAIN objA : key \in DOMAIN objB /\ objA[key] = objB[key]

shallowEqual(objA, objB) ==
    IF Cardinality(DOMAIN objA) # Cardinality(DOMAIN objB)
    THEN FALSE
    ELSE \A key \in DOMAIN objA : key \in DOMAIN objB /\ objA[key] = objB[key]

\* curState as built by pollState from the editor context
curStateOf(e) ==
    [workspace |-> e.workspace,
     fileName  |-> e.fileName,
     language  |-> languageId(e.fileName),
     row       |-> e.row,
     col       |-> 0,
     viewChunk |-> getText(getViewRange(e.row, lineCount(e.fileName)),
                           lineCount(e.fileName))]

prevState0 ==
    [workspace |-> "", fileName |-> "", language |-> "",
     row |-> 0, col |-> 0, viewChunk |-> <<>>]

\* ------------------------------------------------- URLs (token sequences)
GitHubSsh == <<"git@github.com", ":", "acme/widgets", ".git">>
GitLabSsh == <<"git@gitlab.com", ":", "acme/widgets", ".git">>
GitHubFork == <<"git@github.com", ":", "fork/widgets", ".git">>

RemoteLists == {<<"origin">>, <<"upstream", "origin">>}
UrlLists ==
    {<<GitHubSsh>>, <<GitLabSsh>>, <<GitLabSsh, GitHubSsh>>, <<GitHubFork, GitHubSsh>>}

startsWith(s, p) == Len(s) >= Len(p) /\ SubSeq(s, 1, Len(p)) = p

\* String.prototype.replace with a string pattern: first occurrence only
replace(s, pat, rep) ==
    LET hits == {k \in 1..(Len(s) - Len(pat) + 1) : SubSeq(s, k, k + Len(pat) - 1) = pat}
    IN IF hits = {} THEN s
       ELSE LET k == CHOOSE m \in hits : \A n \in hits : m <= n
            IN SubSeq(s, 1, k - 1) \o rep \o SubSeq(s, k + Len(pat), Len(s))

RECURSIVE firstGitHub(_, _)
firstGitHub(urls, i) ==
    IF i > Len(urls) THEN Undefined
    ELSE IF startsWith(urls[i], <<"git@github.com">>)
         THEN replace(replace(urls[i], <<"git@github.com", ":">>, <<"https://github.com/">>),
                      <<".git">>, <<>>)
         ELSE firstGitHub(urls, i + 1)

\* variant: the last GitHub URL of the list is returned, not the first
getGitRemoteURL_lastMatch(res, urls) ==
    LET hits == {k \in 1..Len(urls) : startsWith(urls[k], <<"git@github.com">>)}
    IN IF res = "stdout" /\ hits # {}
       THEN firstGitHub(urls, CHOOSE m \in hits : \A n \in hits : n <= m)
       ELSE Undefined

\* getGitRemoteURL after its exec has settled
getGitRemoteURL(res, urls) ==
    IF res = "stdout" THEN firstGitHub(urls, 1) ELSE Undefined

\* getGitRemotes after its exec has settled
getGitRemotes(res, names) ==
    IF res = "stdout" THEN names ELSE <<>>

\* variant: only a numeric exit code other than 1 counts as ignored
isIgnoredOf_failOpen(res) ==
    IF res = "exit0" THEN "undefined"
    ELSE IF res = "exit128" THEN "true" ELSE "false"

\* the catch block of the ignore check: isIgnored as assigned (or not)
isIgnoredOf(res) ==
    IF res = "exit0" THEN "undefined"
    ELSE LET code == IF res = "exit1" THEN "1"
                     ELSE IF res = "nocode" THEN "undefined"
                     ELSE res
         IN IF code = "undefined" \/ code # "1" THEN "true" ELSE "false"

treatedIgnored(res) == isIgnoredOf(res) = "undefined" \/ isIgnoredOf(res) = "true"

\* ----------------------------------------------------------------- state
VARIABLES
    build,                       \* which build runs
    ed,                          \* the editor context the last tick saw
    prevState,                   \* last-reported State
    ignoredFiles,                \* Set<string>
    knownGitHubs,                \* Map<string, string>
    updateStateAbortController,  \* 0 = undefined, else the tick that made it
    aborted,                     \* controllers whose abort() has been called
    tk,                          \* per pollState invocation: its frame
    nticks,                      \* timer ticks fired so far
    pending,                     \* ticks with an external call outstanding
    mq,                          \* microtask queue (ticks to resume)
    committer,                   \* tick that last assigned prevState
    statePollInterval,           \* 0 = undefined, else a timer id
    timers,                      \* ids of the interval timers that run
    deactivated,                 \* deactivate() has run
    exit1Files,                  \* history: files whose check exited 1
    otherExitFiles,              \* history: files whose check ended otherwise
    vsel, vcount, vrange,        \* getViewRange harness: inputs and result
    eqA, eqB, eqRes,             \* shallowEqual harness: inputs and result
    hurls, hres                  \* getGitRemoteURL harness: stdout and result

vars == <<build, ed, prevState, ignoredFiles, knownGitHubs,
          updateStateAbortController, aborted, tk, nticks, pending, mq,
          committer, statePollInterval, timers, deactivated,
          exit1Files, otherExitFiles, vsel, vcount, vrange,
          eqA, eqB, eqRes, hurls, hres>>

viewVars == <<vsel, vcount, vrange>>
eqVars == <<eqA, eqB, eqRes>>
urlVars == <<hurls, hres>>
timerVars == <<statePollInterval, timers, deactivated>>
histVars == <<exit1Files, otherExitFiles>>
harnessVars == <<viewVars, eqVars, urlVars>>
pipeVars == <<build, ed, prevState, ignoredFiles, knownGitHubs,
              updateStateAbortController, aborted, tk, nticks, pending, mq,
              committer, timerVars, histVars>>

InitTick ==
    [pc |-> "idle", cur |-> prevState0, ctl |-> 0, sig |-> 0, fsig |-> 0,
     res |-> "none", remotes |-> <<>>, i |-> 0, urls |-> <<>>,
     repo |-> Undefined, out |-> "none", nChk |-> 0, nExt |-> 0, nSend |-> 0]

\* the frame of a pollState invocation that has returned
Returned(rec, outcome) ==
    [InitTick EXCEPT !.pc = "done", !.out = outcome]

InitPipeline ==
    /\ build \in Builds
    /\ ed = NoContext
    /\ prevState = prevState0
    /\ ignoredFiles = {}
    /\ knownGitHubs = <<>>
    /\ updateStateAbortController = 0
    /\ aborted = {}
    /\ tk = [t \in Ticks |-> InitTick]
    /\ nticks = 0
    /\ pending = <<>>
    /\ mq = <<>>
    /\ committer = 0
    /\ statePollInterval = 0
    /\ timers = {TimerId}
    /\ deactivated = FALSE
    /\ exit1Files = {}
    /\ otherExitFiles = {}

ViewIdle == vsel = 0 /\ vcount = 0 /\ vrange = getViewRange(0, 0)
EqIdle == eqA = prevState0 /\ eqB = prevState0 /\ eqRes = "none"
UrlIdle == hurls = <<>> /\ hres = <<"none">>

Init ==
    /\ InitPipeline
    /\ ViewIdle /\ EqIdle /\ UrlIdle

InSeq(x, s) == \E k \in 1..Len(s) : s[k] = x
Without(s, x) == SelectSeq(s, LAMBDA u : u # x)

\* Leave the frame of tick t as `step` says: "call" starts an external call
\* with signal step.rec.sig (rejected at once if that signal is aborted),
\* "queue" awaits an already settled promise, "end" returns.
Settle(t, step, victims, q, ab) ==
    LET immediate == step.kind = "call" /\ step.rec.sig \in ab
        rest == SelectSeq(pending, LAMBDA u : ~InSeq(u, victims) /\ u # t)
    IN /\ tk' = [u \in Ticks |->
                   IF u = t
                   THEN IF immediate THEN [step.rec EXCEPT !.res = "ABORT_ERR"]
                        ELSE step.rec
                   ELSE IF InSeq(u, victims)
                        THEN [tk[u] EXCEPT !.res = "ABORT_ERR"]
                        ELSE tk[u]]
       /\ pending' = IF step.kind = "call" /\ ~immediate
                     THEN Append(rest, t) ELSE rest
       /\ mq' = q \o victims \o
                (IF step.kind = "queue" \/ immediate THEN <<t>> ELSE <<>>)

\* calls pending on the signal of the controller being aborted
victimsOf(c) ==
    IF c = 0 THEN <<>> ELSE SelectSeq(pending, LAMBDA u : tk[u].sig = c)

\* exit statuses git check-ignore ends with when it is not killed
NaturalExits == {"exit0", "exit1", "exit128", "nocode"}

\* history of the checks that ran to completion, by verdict
exit1FilesAfter(seen, fileName, res) ==
    IF res = "exit1" THEN seen \cup {fileName} ELSE seen

otherExitFilesAfter(seen, fileName, res) ==
    IF res \in NaturalExits \ {"exit1"} THEN seen \cup {fileName} ELSE seen

\* variant: the ignore cache is never consulted
isCachedIgnored_never(cache, fileName) == FALSE

\* ignoredFiles.has(doc.fileName)
isCachedIgnored(cache, fileName) == fileName \in cache

\* variant: the result of a lookup is stored whether or not it matched
knownGitHubsAfter_memoAbsent(known, workspace, githubUrl) ==
    [w \in DOMAIN known \cup {workspace} |->
        IF w = workspace THEN githubUrl ELSE known[w]]

\* findGitHubURL after a remote's lookup: knownGitHubs.set only on a match
knownGitHubsAfter(known, workspace, githubUrl) ==
    IF githubUrl # Undefined
    THEN [w \in DOMAIN known \cup {workspace} |->
            IF w = workspace THEN githubUrl ELSE known[w]]
    ELSE known

\* ---------------------------------------------- part_000: the resolver
\* findGitHubURL up to its first await
findGitHubURL(rec, signal) ==
    IF rec.cur.workspace \in DOMAIN knownGitHubs
    THEN [kind |-> "queue",
          rec |-> [rec EXCEPT !.pc = "afterFind",
                              !.repo = knownGitHubs[rec.cur.workspace]]]
    ELSE [kind |-> "call",
          rec |-> [rec EXCEPT !.pc = "remotes", !.fsig = signal,
                              !.sig = signal, !.nExt = @ + 1]]

\* the for loop of findGitHubURL, entered with index i
findLoop(rec, i) ==
    IF i < Len(rec.remotes)
    THEN [kind |-> "call",
          rec |-> [rec EXCEPT !.pc = "geturl", !.i = i, !.sig = rec.fsig,
                              !.nExt = @ + 1]]
    ELSE [kind |-> "queue",
          rec |-> [rec EXCEPT !.pc = "afterFind", !.i = i, !.repo = Undefined]]

\* the fetch call of pollState, its signal read from the global
fetchCall(rec) ==
    [kind |-> "call",
     rec |-> [rec EXCEPT !.pc = "fetch", !.sig = updateStateAbortController,
                         !.nSend = @ + 1]]

\* ----------------------------------------------- part_000: pollState
pollState(t, e) ==
    /\ build = "part" /\ TimerId \in timers
    /\ mq = <<>> /\ t = nticks + 1 /\ t \in Ticks
    /\ nticks' = t
    /\ ed' = e
    /\ LET curState == curStateOf(e)
           rec0 == [InitTick EXCEPT !.cur = curState]
       IN IF e = NoContext
          THEN \* line 105 throws a TypeError: the promise of pollState rejects
               /\ Settle(t, [kind |-> "end",
                             rec |-> Returned(InitTick, "rejected")],
                         <<>>, mq, aborted)
               /\ UNCHANGED <<updateStateAbortController, aborted>>
          ELSE IF shallowEqual(prevState, curState)
          THEN /\ Settle(t, [kind |-> "end",
                             rec |-> Returned(rec0, "unchanged")],
                         <<>>, mq, aborted)
               /\ UNCHANGED <<updateStateAbortController, aborted>>
          ELSE IF isCachedIgnored(ignoredFiles, curState.fileName)
          THEN /\ Settle(t, [kind |-> "end",
                             rec |-> Returned(rec0, "cached")],
                         <<>>, mq, aborted)
               /\ UNCHANGED <<updateStateAbortController, aborted>>
          ELSE LET old == updateStateAbortController
                   ab == IF old # 0 THEN aborted \cup {old} ELSE aborted
                   didChangeFile == prevState.fileName # curState.fileName
                   rec1 == [rec0 EXCEPT !.ctl = t]
               IN /\ aborted' = ab
                  /\ updateStateAbortController' = t
                  /\ IF didChangeFile
                     THEN Settle(t, [kind |-> "call",
                                     rec |-> [rec1 EXCEPT !.pc = "check", !.sig = t,
                                                          !.nChk = @ + 1]],
                                 victimsOf(old), mq, ab)
                     ELSE Settle(t, findGitHubURL(rec1, t), victimsOf(old), mq, ab)
    /\ UNCHANGED <<build, prevState, ignoredFiles, knownGitHubs, committer, timerVars, histVars, harnessVars>>

\* a microtask: the head of the queue resumes
Resuming(t, at) ==
    /\ mq # <<>> /\ Head(mq) = t /\ tk[t].pc = at

afterCheck(t) ==
    /\ build = "part" /\ Resuming(t, "check")
    /\ LET rec == [tk[t] EXCEPT !.res = "none"]
       IN IF treatedIgnored(tk[t].res)
          THEN /\ ignoredFiles' = ignoredFiles \cup {rec.cur.fileName}
               /\ Settle(t, [kind |-> "end",
                             rec |-> Returned(rec, "ignored")],
                         <<>>, Tail(mq), aborted)
          ELSE /\ UNCHANGED ignoredFiles
               /\ Settle(t, findGitHubURL(rec, updateStateAbortController),
                         <<>>, Tail(mq), aborted)
    /\ exit1Files' = exit1FilesAfter(exit1Files, tk[t].cur.fileName, tk[t].res)
    /\ otherExitFiles' = otherExitFilesAfter(otherExitFiles, tk[t].cur.fileName, tk[t].res)
    /\ UNCHANGED <<build, ed, prevState, knownGitHubs, updateStateAbortController,
                   aborted, nticks, committer, timerVars, harnessVars>>

afterRemotes(t) ==
    /\ build = "part" /\ Resuming(t, "remotes")
    /\ Settle(t, [kind |-> "queue",
                  rec |-> [tk[t] EXCEPT !.pc = "findLoop", !.res = "none",
                                        !.remotes = getGitRemotes(tk[t].res, tk[t].remotes)]],
              <<>>, Tail(mq), aborted)
    /\ UNCHANGED <<build, ed, prevState, ignoredFiles, knownGitHubs,
                   updateStateAbortController, aborted, nticks, committer, timerVars, histVars, harnessVars>>

findGitHubURLLoop(t) ==
    /\ build = "part" /\ Resuming(t, "findLoop")
    /\ Settle(t, findLoop(tk[t], 0), <<>>, Tail(mq), aborted)
    /\ UNCHANGED <<build, ed, prevState, ignoredFiles, knownGitHubs,
                   updateStateAbortController, aborted, nticks, committer, timerVars, histVars, harnessVars>>

afterGetUrl(t) ==
    /\ build = "part" /\ Resuming(t, "geturl")
    /\ Settle(t, [kind |-> "queue",
                  rec |-> [tk[t] EXCEPT !.pc = "findNext", !.res = "none",
                                        !.urls = <<>>,
                                        !.repo = getGitRemoteURL(tk[t].res, tk[t].urls)]],
              <<>>, Tail(mq), aborted)
    /\ UNCHANGED <<build, ed, prevState, ignoredFiles, knownGitHubs,
                   updateStateAbortController, aborted, nticks, committer, timerVars, histVars, harnessVars>>

findGitHubURLNext(t) ==
    /\ build = "part" /\ Resuming(t, "findNext")
    /\ knownGitHubs' = knownGitHubsAfter(knownGitHubs, tk[t].cur.workspace, tk[t].repo)
    /\ IF tk[t].repo # Undefined
       THEN Settle(t, [kind |-> "queue", rec |-> [tk[t] EXCEPT !.pc = "afterFind"]],
                   <<>>, Tail(mq), aborted)
       ELSE Settle(t, findLoop(tk[t], tk[t].i + 1), <<>>, Tail(mq), aborted)
    /\ UNCHANGED <<build, ed, prevState, ignoredFiles,
                   updateStateAbortController, aborted, nticks, committer, timerVars, histVars, harnessVars>>

afterFind(t) ==
    /\ build = "part" /\ Resuming(t, "afterFind")
    /\ prevState' = tk[t].cur
    /\ committer' = t
    /\ Settle(t, fetchCall(tk[t]), <<>>, Tail(mq), aborted)
    /\ UNCHANGED <<build, ed, ignoredFiles, knownGitHubs,
                   updateStateAbortController, aborted, nticks, timerVars, histVars, harnessVars>>

\* the response (whose body is read when it is not ok) or the error is
\* logged, and pollState returns
afterFetch(t) ==
    /\ build = "part" /\ Resuming(t, "fetch")
    /\ Settle(t, [kind |-> "end",
                  rec |-> Returned(tk[t], "reported")],
              <<>>, Tail(mq), aborted)
    /\ UNCHANGED <<build, ed, prevState, ignoredFiles, knownGitHubs,
                   updateStateAbortController, aborted, nticks, committer, timerVars, histVars, harnessVars>>

\* --------------------------------------------- extension.js: pollState
pollStateExt(t, e) ==
    /\ build = "ext" /\ TimerId \in timers
    /\ mq = <<>> /\ t = nticks + 1 /\ t \in Ticks
    /\ nticks' = t
    /\ ed' = e
    /\ LET curState == curStateOf(e)
           rec0 == [InitTick EXCEPT !.cur = curState]
       IN IF e = NoContext
          THEN \* line 102 throws a TypeError: the promise of pollState rejects
               /\ Settle(t, [kind |-> "end",
                             rec |-> Returned(InitTick, "rejected")],
                         <<>>, mq, aborted)
               /\ UNCHANGED <<updateStateAbortController, aborted, prevState, committer>>
          ELSE IF shallowEqual(prevState, curState)
          THEN /\ Settle(t, [kind |-> "end",
                             rec |-> Returned(rec0, "unchanged")],
                         <<>>, mq, aborted)
               /\ UNCHANGED <<updateStateAbortController, aborted, prevState, committer>>
          ELSE LET old == updateStateAbortController
                   ab == IF old # 0 THEN aborted \cup {old} ELSE aborted
                   didChangeFile == prevState.fileName # curState.fileName
                   rec1 == [rec0 EXCEPT !.ctl = t]
               IN /\ prevState' = curState
                  /\ committer' = t
                  /\ aborted' = ab
                  /\ updateStateAbortController' = t
                  /\ IF isCachedIgnored(ignoredFiles, curState.fileName)
                     THEN Settle(t, [kind |-> "end",
                                     rec |-> Returned(rec1, "cached")],
                                 victimsOf(old), mq, ab)
                     ELSE IF didChangeFile
                     THEN Settle(t, [kind |-> "call",
                                     rec |-> [rec1 EXCEPT !.pc = "check", !.sig = t,
                                                          !.nChk = @ + 1]],
                                 victimsOf(old), mq, ab)
                     ELSE Settle(t, [kind |-> "call",
                                     rec |-> [rec1 EXCEPT !.pc = "fetch", !.sig = t,
                                                          !.nSend = @ + 1]],
                                 victimsOf(old), mq, ab)
    /\ UNCHANGED <<build, ignoredFiles, knownGitHubs, timerVars, histVars, harnessVars>>

afterCheckExt(t) ==
    /\ build = "ext" /\ Resuming(t, "check")
    /\ LET rec == [tk[t] EXCEPT !.res = "none"]
       IN IF treatedIgnored(tk[t].res)
          THEN /\ ignoredFiles' = ignoredFiles \cup {rec.cur.fileName}
               /\ Settle(t, [kind |-> "end",
                             rec |-> Returned(rec, "ignored")],
                         <<>>, Tail(mq), aborted)
          ELSE /\ UNCHANGED ignoredFiles
               /\ Settle(t, fetchCall(rec), <<>>, Tail(mq), aborted)
    /\ exit1Files' = exit1FilesAfter(exit1Files, tk[t].cur.fileName, tk[t].res)
    /\ otherExitFiles' = otherExitFilesAfter(otherExitFiles, tk[t].cur.fileName, tk[t].res)
    /\ UNCHANGED <<build, ed, prevState, knownGitHubs, updateStateAbortController,
                   aborted, nticks, committer, timerVars, harnessVars>>

afterFetchExt(t) ==
    /\ build = "ext" /\ Resuming(t, "fetch")
    /\ Settle(t, [kind |-> "end",
                  rec |-> Returned(tk[t], "reported")],
              <<>>, Tail(mq), aborted)
    /\ UNCHANGED <<build, ed, prevState, ignoredFiles, knownGitHubs,
                   updateStateAbortController, aborted, nticks, committer, timerVars, histVars, harnessVars>>

\* ------------------------------------------- the environment (macrotasks)
\* An external call of tick t settles on its own and its await resumes.
Settled(t, at, rec) ==
    /\ mq = <<>> /\ InSeq(t, pending) /\ tk[t].pc = at
    /\ tk' = [tk EXCEPT ![t] = rec]
    /\ pending' = Without(pending, t)
    /\ mq' = <<t>>
    /\ UNCHANGED <<build, ed, prevState, ignoredFiles, knownGitHubs,
                   updateStateAbortController, aborted, nticks, committer, timerVars, histVars, harnessVars>>

\* git check-ignore exits: 0, 1, another code, or an error without a code
checkIgnoreExit(t) ==
    /\ tk[t].pc = "check"
    /\ \E r \in {"exit0", "exit1", "exit128", "nocode"} :
          Settled(t, "check", [tk[t] EXCEPT !.res = r])

\* git remote exits: an error, or the remote names on stdout
gitRemoteExit(t) ==
    /\ tk[t].pc = "remotes"
    /\ \/ Settled(t, "remotes", [tk[t] EXCEPT !.res = "error"])
       \/ \E names \in RemoteLists :
             Settled(t, "remotes", [tk[t] EXCEPT !.res = "stdout", !.remotes = names])

\* git remote get-url --all <remote> exits: an error, or the URLs on stdout
gitRemoteGetUrlExit(t) ==
    /\ tk[t].pc = "geturl"
    /\ \/ Settled(t, "geturl", [tk[t] EXCEPT !.res = "error"])
       \/ \E urls \in UrlLists :
             Settled(t, "geturl", [tk[t] EXCEPT !.res = "stdout", !.urls = urls])

\* the fetch settles: 2xx, another status, or a network error
fetchSettle(t) ==
    /\ tk[t].pc = "fetch"
    /\ \E r \in {"ok", "notok", "neterr"} :
          Settled(t, "fetch", [tk[t] EXCEPT !.res = r])

Next ==
    \/ \E t \in Ticks, e \in EditorInputs : pollState(t, e)
    \/ \E t \in Ticks : afterCheck(t)
    \/ \E t \in Ticks : afterRemotes(t)
    \/ \E t \in Ticks : findGitHubURLLoop(t)
    \/ \E t \in Ticks : afterGetUrl(t)
    \/ \E t \in Ticks : findGitHubURLNext(t)
    \/ \E t \in Ticks : afterFind(t)
    \/ \E t \in Ticks : afterFetch(t)
    \/ \E t \in Ticks, e \in EditorInputs : pollStateExt(t, e)
    \/ \E t \in Ticks : afterCheckExt(t)
    \/ \E t \in Ticks : afterFetchExt(t)
    \/ \E t \in Ticks : checkIgnoreExit(t)
    \/ \E t \in Ticks : gitRemoteExit(t)
    \/ \E t \in Ticks : gitRemoteGetUrlExit(t)
    \/ \E t \in Ticks : fetchSettle(t)

Spec == Init /\ [][Next]_vars

\* ---------------------------------------------------------- deactivate
\* clearInterval(id): the timer with that id stops; an id that is no timer
\* (undefined) stops nothing
clearInterval(running, id) == running \ {id}

\* deactivate(), called by the host between two tasks.  The disposer pushed
\* on context.subscriptions makes the same clearInterval call.
deactivate ==
    /\ mq = <<>> /\ ~deactivated
    /\ deactivated' = TRUE
    /\ timers' = clearInterval(timers, statePollInterval)
    /\ LET c == updateStateAbortController
           victims == victimsOf(c)
       IN /\ aborted' = IF c # 0 THEN aborted \cup {c} ELSE aborted
          /\ tk' = [u \in Ticks |->
                      IF InSeq(u, victims)
                      THEN [tk[u] EXCEPT !.res = "ABORT_ERR"] ELSE tk[u]]
          /\ pending' = SelectSeq(pending, LAMBDA u : ~InSeq(u, victims))
          /\ mq' = victims
    /\ UNCHANGED <<build, ed, prevState, ignoredFiles, knownGitHubs,
                   updateStateAbortController, nticks, committer,
                   statePollInterval, histVars, harnessVars>>

NextShutdown ==
    \/ Next
    \/ deactivate

SpecShutdown == Init /\ [][NextShutdown]_vars

\* ------------------------------------------------ getViewRange harness
InitView ==
    /\ InitPipeline /\ EqIdle /\ UrlIdle
    /\ vsel \in 0..MaxLines /\ vcount \in 0..MaxLines
    /\ vrange = getViewRange(vsel, vcount)

getViewRangeCall ==
    /\ \E l \in 0..MaxLines, n \in 0..MaxLines :
          /\ vsel' = l /\ vcount' = n
          /\ vrange' = getViewRange(l, n)
    /\ UNCHANGED <<pipeVars, eqVars, urlVars>>

NextView == getViewRangeCall

SpecView == InitView /\ [][NextView]_vars

\* ------------------------------------------------ shallowEqual harness
StateFields == {"workspace", "fileName", "language", "row", "col", "viewChunk"}

\* State objects, two values per field
States ==
    [workspace : Workspaces, fileName : Files, language : {"javascript", "log"},
     row : Rows, col : {0, 1}, viewChunk : {<<0, 0>>, <<0, 1>>}]

\* a State object without the property k
Drop(s, k) == [f \in DOMAIN s \ {k} |-> s[f]]

Objects == States \cup {Drop(s, k) : s \in States, k \in {"col", "viewChunk"}}

InitEq ==
    /\ InitPipeline /\ ViewIdle /\ UrlIdle
    /\ eqA \in Objects /\ eqB \in Objects
    /\ eqRes = "none"

shallowEqualCall ==
    /\ eqRes = "none"
    /\ eqRes' = IF shallowEqual(eqA, eqB) THEN "true" ELSE "false"
    /\ UNCHANGED <<pipeVars, viewVars, urlVars, eqA, eqB>>

NextEq == shallowEqualCall

SpecEq == InitEq /\ [][NextEq]_vars

\* --------------------------------------------- getGitRemoteURL harness
\* lines of `git remote get-url --all`: a host, what follows it, a path that
\* may hold ".git" before its end, and the ".git" suffix or none
HarnessUrls ==
    {h \o sep \o p \o suffix :
        h \in {<<"git@github.com">>, <<"git@gitlab.com">>},
        sep \in {<<":">>, <<".example.org", ":">>},
        p \in {<<"acme/widgets">>, <<"acme/my", ".git", "hub.io">>},
        suffix \in {<<".git">>, <<>>}}

HarnessUrlLists ==
    {<<u>> : u \in HarnessUrls} \cup {<<u, v>> : u \in HarnessUrls, v \in HarnessUrls}

InitUrl ==
    /\ InitPipeline /\ ViewIdle /\ EqIdle
    /\ hurls \in HarnessUrlLists
    /\ hres = <<"none">>

getGitRemoteURLCall ==
    /\ hres = <<"none">>
    /\ hres' = getGitRemoteURL("stdout", hurls)
    /\ UNCHANGED <<pipeVars, viewVars, eqVars, hurls>>

NextUrl == getGitRemoteURLCall

SpecUrl == InitUrl /\ [][NextUrl]_vars

\* ===================================================== properties
Live(t) == tk[t].pc \notin {"idle", "done"}

\* the step is the synchronous part of tick t
Starts(t) == nticks = t - 1 /\ nticks' = t

\* the step resumes tick t after an await
Resumes(t) == mq # <<>> /\ Head(mq) = t /\ tk'[t] # tk[t]

\* tick t has entered the pipeline: it has made its abort controller
Superseded(t) == tk[t].ctl # 0 /\ tk[t].ctl \in aborted


\* C1: a tick that enters the pipeline cancels every call still pending, and
\* a tick that committed prevState earlier never overwrites the prevState a
\* later tick has committed.
C1_SupersedeOnNewTick ==
    [][/\ \A t \in Ticks :
            (Starts(t) /\ tk'[t].ctl = t) =>
                \A u \in Ticks : InSeq(u, pending) => tk'[u].res = "ABORT_ERR"
       /\ committer' < committer => prevState' = prevState]_vars

\* C2: at most one pipeline has an external call outstanding; a tick sends
\* only with the signal of its own controller, and a tick whose controller
\* was aborted never gets a response to its send.
C2_SinglePipeline ==
    /\ Len(pending) <= 1
    /\ \A t \in Ticks :
          tk[t].pc = "fetch" =>
             /\ tk[t].sig = tk[t].ctl
             /\ tk[t].res \in {"ok", "notok"} => tk[t].ctl \notin aborted

\* C3: a changed snapshot of a file that is not in the ignore cache is
\* committed to prevState in the synchronous part of its tick, and a tick
\* that captures the snapshot of a tick still in flight returns unchanged.
C3_SynchronousCommit ==
    [][\A t \in Ticks :
          (Starts(t) /\ ed' \in Contexts) =>
             /\ (/\ ~shallowEqual(prevState, curStateOf(ed'))
                 /\ ed'.fileName \notin ignoredFiles)
                   => prevState' = curStateOf(ed')
             /\ (\E u \in Ticks : Live(u) /\ tk[u].cur = curStateOf(ed'))
                   => /\ tk'[t].out = "unchanged"
                      /\ pending' = pending /\ mq' = <<>>]_vars

\* C4: a tick that captures the same snapshot as the tick before it returns
\* at once: it starts no external call, sends nothing and aborts nothing.
C4_UnchangedTick ==
    [][\A t \in Ticks :
          (Starts(t) /\ t > 1 /\ ed' = ed) =>
             /\ tk'[t].pc = "done"
             /\ pending' = pending /\ mq' = <<>> /\ aborted' = aborted
             /\ updateStateAbortController' = updateStateAbortController
             /\ \A u \in Ticks \ {t} : tk'[u] = tk[u]]_vars

\* C5: when the ignore check of a tick exits 0, that tick has run one check,
\* has sent nothing, caches the path and returns; a tick whose file is in
\* the ignore cache returns in its synchronous part without any call.
C5_IgnoreCache ==
    [][\A t \in Ticks :
          /\ (Resumes(t) /\ tk[t].pc = "check" /\ tk[t].res = "exit0") =>
                /\ tk[t].nChk = 1 /\ tk[t].nSend = 0 /\ tk[t].nExt = 0
                /\ tk[t].cur.fileName \in ignoredFiles'
                /\ tk'[t].pc = "done"
                /\ ~InSeq(t, pending') /\ ~InSeq(t, mq')
          /\ (Starts(t) /\ ed'.fileName \in ignoredFiles) =>
                /\ tk'[t].pc = "done"
                /\ tk'[t].nChk = 0 /\ tk'[t].nSend = 0 /\ tk'[t].nExt = 0
                /\ ~InSeq(t, pending') /\ ~InSeq(t, mq')
                /\ ignoredFiles' = ignoredFiles]_vars

C5_Witness ==
    \E t, u \in Ticks :
        /\ u < t /\ tk[u].out = "ignored" /\ tk[t].out = "cached"
        /\ ed.fileName \in ignoredFiles

C7_CancelledIsNoop ==
    [][\A t \in Ticks :
          (Resumes(t) /\ Superseded(t) /\ tk[t].pc # "fetch") =>
             /\ ignoredFiles' = ignoredFiles
             /\ knownGitHubs' = knownGitHubs
             /\ prevState' = prevState
             /\ tk'[t].pc # "fetch"]_vars

\* C8: when the ignore check of a tick has exited on its own, the tick goes
\* on towards the report, caching nothing, exactly if the exit code is 1;
\* otherwise the path is cached and the tick returns without a send.
C8_ExitCodePolicy ==
    [][\A t \in Ticks :
          (Resumes(t) /\ tk[t].pc = "check" /\ tk[t].res \in NaturalExits) =>
             IF tk[t].res = "exit1"
             THEN /\ tk'[t].pc \in {"remotes", "afterFind", "fetch"}
                  /\ ignoredFiles' = ignoredFiles
             ELSE /\ tk[t].cur.fileName \in ignoredFiles'
                  /\ tk'[t].pc = "done" /\ tk[t].nSend = 0
                  /\ ~InSeq(t, pending')]_vars

C8_Witness ==
    \E t \in Ticks :
        /\ ignoredFiles # {}
        /\ tk[t].pc \in {"remotes", "afterFind", "fetch"}
        /\ tk[t].cur.fileName \notin ignoredFiles
        /\ tk[t].nChk = 1

\* C9: for a document of at least 11 lines and a cursor line inside it, the
\* window is 11 lines long, lies inside the document and holds the cursor.
C9_WindowSize ==
    (vcount >= 11 /\ vsel < vcount) =>
        /\ vrange.end - vrange.start + 1 = 11
        /\ 0 <= vrange.start /\ vrange.end < vcount
        /\ vrange.start <= vsel /\ vsel <= vrange.end

C9_Witness ==
    /\ vcount >= 11 /\ vsel < vcount
    /\ vcount - Max(0, vsel - 5) < 11
    /\ vrange.end = vcount - 1

\* C10: for a document of fewer than 11 lines the window runs from line 0
\* to the line count, wherever the cursor is.
C10_ShortDocument ==
    vcount < 11 => vrange = [start |-> 0, end |-> vcount]

C10_Witness ==
    /\ vcount < 11 /\ vcount > 0 /\ vsel > 5
    /\ vrange.end = vcount

\* C11: two equal State objects are not a change; two State objects that
\* differ in exactly one of the six fields are a change; two objects with
\* different numbers of keys are a change.
C11_ChangeDetection ==
    eqRes # "none" =>
        /\ eqA = eqB => eqRes = "true"
        /\ (/\ DOMAIN eqA = StateFields /\ DOMAIN eqB = StateFields
            /\ Cardinality({k \in StateFields : eqA[k] # eqB[k]}) = 1)
              => eqRes = "false"
        /\ Cardinality(DOMAIN eqA) # Cardinality(DOMAIN eqB) => eqRes = "false"

C11_Witness ==
    /\ eqRes = "false"
    /\ DOMAIN eqA = StateFields /\ DOMAIN eqB = StateFields
    /\ {k \in StateFields : eqA[k] # eqB[k]} = {"viewChunk"}

\* the shape git@github.com:OWNER/REPO.git, the suffix taken as optional
SshGitHubShape(u) ==
    Len(u) >= 3 /\ u[1] = "git@github.com" /\ u[2] = ":"

\* u without its trailing .git
StripSuffix(u) ==
    IF u[Len(u)] = ".git" THEN SubSeq(u, 1, Len(u) - 1) ELSE u

\* C12: a URL is accepted only if it has the shape
\* git@github.com:OWNER/REPO.git; an accepted URL is returned with the prefix
\* git@github.com: replaced by https://github.com/ and only the trailing
\* .git removed; every other URL is rejected.
C12_UrlNormalization ==
    (hres # <<"none">> /\ Len(hurls) = 1) =>
        IF SshGitHubShape(hurls[1])
        THEN hres = <<"https://github.com/">> \o
                    SubSeq(StripSuffix(hurls[1]), 3, Len(StripSuffix(hurls[1])))
        ELSE hres = Undefined

\* tick t is inside findGitHubURL
Resolving(t) == tk[t].pc \in {"remotes", "findLoop", "geturl", "findNext"}

\* C13: when the signal given to findGitHubURL is aborted during the
\* resolution, the call pending on it is rejected, and from then on the
\* resolution starts no call that stays pending, leaves the repository
\* cache as it is and returns absent.
C13_CancelledResolution ==
    [][\A t \in Ticks :
          /\ (/\ Resolving(t) /\ InSeq(t, pending)
              /\ tk[t].fsig \notin aborted /\ tk[t].fsig \in aborted')
                => /\ ~InSeq(t, pending') /\ InSeq(t, mq')
                   /\ tk'[t].res = "ABORT_ERR"
                   /\ knownGitHubs' = knownGitHubs
          /\ (Resumes(t) /\ Resolving(t) /\ tk[t].fsig \in aborted)
                => /\ knownGitHubs' = knownGitHubs
                   /\ ~InSeq(t, pending')
                   /\ tk'[t].pc \in {"findLoop", "geturl", "findNext", "afterFind"}
                   /\ tk'[t].pc = "afterFind" => tk'[t].repo = Undefined]_vars

C13_Witness ==
    \E t \in Ticks :
        /\ tk[t].pc = "afterFind" /\ InSeq(t, mq)
        /\ tk[t].fsig \in aborted /\ tk[t].repo = Undefined
        /\ tk[t].i = 2 /\ Len(tk[t].remotes) = 2
        /\ tk[t].cur.workspace \notin DOMAIN knownGitHubs

\* C14: every tick that has ended has ended in a normal outcome (unchanged,
\* ignored from the cache or by the check, or reported with its error
\* logged), the tick that finds no active editor included; none has ended
\* in a rejected promise.
C14_NoThrow ==
    \A t \in Ticks :
        tk[t].pc = "done" =>
            tk[t].out \in {"unchanged", "cached", "ignored", "reported"}

\* the step in which tick t starts its network send
Sends(t) == tk[t].pc # "fetch" /\ tk'[t].pc = "fetch"

\* C15: a send carries a fileName for which an ignore check has run to
\* completion with exit code 1; a tick that starts while the ignore check of
\* an earlier tick for the same file is pending does not send in its
\* synchronous part.
C15_NoSendWithoutCheck ==
    [][\A t \in Ticks :
          /\ Sends(t) => tk'[t].cur.fileName \in exit1Files'
          /\ (/\ Starts(t)
              /\ \E u \in Ticks : /\ tk[u].pc = "check" /\ InSeq(u, pending)
                                  /\ tk[u].cur.fileName = ed'.fileName)
                => ~Sends(t)]_vars

\* C16: a tick that finds the file path the tick before it found does not
\* invoke the ignore check, wherever the cursor is and whatever is still
\* in flight.
C16_CheckOncePerFile ==
    [][\A t \in Ticks :
          (/\ Starts(t) /\ t > 1
           /\ ed \in Contexts /\ ed'.fileName = ed.fileName)
             => /\ tk'[t].nChk = 0
                /\ tk'[t].pc # "check"]_vars

\* the URL passes the test of getGitRemoteURL
Accepted(u) == startsWith(u, <<"git@github.com">>)

\* C17: the remotes are probed in order from the first, the URLs of a remote
\* in listed order, and the first accepted URL is the result; a lookup that
\* fails yields no result and the scan goes on with the next remote; a
\* result is cached under the workspace and returned without probing a
\* later remote; an entry of the cache never changes, and a resolution that
\* finds an entry returns it without any external call.
C17_FirstMatchMemoized ==
    [][\A t \in Ticks :
          LET w == tk[t].cur.workspace
              urls == tk[t].urls
          IN /\ (Resumes(t) /\ tk[t].pc = "findLoop" /\ Len(tk[t].remotes) > 0)
                   => tk'[t].pc = "geturl" /\ tk'[t].i = 0
             /\ (Resumes(t) /\ tk[t].pc = "geturl" /\ tk[t].res = "stdout")
                   => \/ /\ \A k \in 1..Len(urls) : ~Accepted(urls[k])
                         /\ tk'[t].repo = Undefined
                      \/ \E k \in 1..Len(urls) :
                            /\ Accepted(urls[k])
                            /\ \A j \in 1..(k - 1) : ~Accepted(urls[j])
                            /\ tk'[t].repo = firstGitHub(<<urls[k]>>, 1)
             /\ (Resumes(t) /\ tk[t].pc = "geturl" /\ tk[t].res = "error")
                   => tk'[t].repo = Undefined /\ tk'[t].pc = "findNext"
             /\ (/\ Resumes(t) /\ tk[t].pc = "findNext" /\ tk[t].repo = Undefined
                 /\ tk[t].i + 1 < Len(tk[t].remotes))
                   => /\ tk'[t].pc = "geturl" /\ tk'[t].i = tk[t].i + 1
                      /\ tk[t].fsig \notin aborted => InSeq(t, pending')
             /\ (Resumes(t) /\ tk[t].pc = "findNext" /\ tk[t].repo # Undefined)
                   => /\ w \in DOMAIN knownGitHubs' /\ knownGitHubs'[w] = tk[t].repo
                      /\ tk'[t].pc = "afterFind" /\ tk'[t].repo = tk[t].repo
                      /\ tk'[t].nExt = tk[t].nExt /\ ~InSeq(t, pending')
             /\ \A v \in DOMAIN knownGitHubs :
                   v \in DOMAIN knownGitHubs' /\ knownGitHubs'[v] = knownGitHubs[v]
             /\ (/\ build = "part" /\ tk[t].pc \in {"idle", "check"}
                 /\ tk'[t].pc \notin {"idle", "check", "done"}
                 /\ tk'[t].cur.workspace \in DOMAIN knownGitHubs)
                   => /\ tk'[t].pc = "afterFind"
                      /\ tk'[t].repo = knownGitHubs[tk'[t].cur.workspace]
                      /\ tk'[t].nExt = 0 /\ ~InSeq(t, pending')]_vars

C17_Witness ==
    \E t \in Ticks :
        /\ tk[t].pc = "afterFind" /\ tk[t].nExt = 0
        /\ tk[t].repo = firstGitHub(<<GitHubFork>>, 1)
        /\ knownGitHubs[tk[t].cur.workspace] = tk[t].repo

\* C18: when the send of a tick fails (network error or a status that is
\* not a success), prevState stays as it is, and it is the snapshot of that
\* tick unless a later tick has superseded it; the tick returns and starts
\* no other call; a tick that captures a snapshot equal to prevState
\* returns without starting a call.
C18_NoRetry ==
    [][\A t \in Ticks :
          /\ (Resumes(t) /\ tk[t].pc = "fetch" /\ tk[t].res \in {"notok", "neterr"})
                => /\ ~Superseded(t) => prevState = tk[t].cur
                   /\ prevState' = prevState
                   /\ tk'[t].pc = "done"
                   /\ pending' = pending /\ mq' = Tail(mq)
          /\ (/\ Starts(t) /\ ed' \in Contexts
              /\ shallowEqual(prevState, curStateOf(ed')))
                => /\ tk'[t].pc = "done" /\ tk'[t].nSend = 0
                   /\ pending' = pending /\ mq' = <<>>]_vars

\* nothing is in flight: every tick fired so far has run to its end
Quiescent == nticks >= 1 /\ pending = <<>> /\ mq = <<>>

\* C19, as what a finite run shows: a file is in the ignore cache only if a
\* check of it has run to completion with a status other than 1; and once
\* every call has completed, if the last tick found snapshot S on a file
\* whose checks all exited 1, then S is the last-reported state (its report
\* has been sent).
C19_EventualReport ==
    /\ \A f \in ignoredFiles : f \in otherExitFiles
    /\ (Quiescent /\ ed \in Contexts /\ ed.fileName \notin otherExitFiles)
          => prevState = curStateOf(ed)

\* C20: deactivate stops the polling timer and aborts the controller in
\* use; once it has run no tick fires, no external call is started and no
\* report is sent.
C20_ShutdownStopsPoller ==
    [][/\ (~deactivated /\ deactivated')
            => /\ TimerId \notin timers'
               /\ updateStateAbortController # 0
                     => updateStateAbortController \in aborted'
       /\ deactivated
            => /\ nticks' = nticks
               /\ \A t \in Ticks :
                     /\ InSeq(t, pending') => InSeq(t, pending)
                     /\ tk'[t].nChk = tk[t].nChk \/ tk'[t].pc = "done"
                     /\ ~Sends(t)]_vars

TypeOK ==
    /\ nticks \in 0..MaxTicks
    /\ Len(mq) <= MaxTicks
    /\ \A t \in Ticks : t > nticks => tk[t] = InitTick
====
